---- MODULE Spec2Model ----
(***************************************************************************)
(* Model of kitHttp's WebSocket client (src/kitHttp/clientsocket.py):      *)
(* the connect / reconnect loop, close(), the listener registry, emit and  *)
(* emit_with_timeout, and the routing of inbound frames.                   *)
(*                                                                         *)
(* Coroutines are modelled at the granularity of their suspension points:  *)
(* one action runs a coroutine from one `await` to the next.  A call such  *)
(* as `await x.close()` takes effect in the step that makes the call; the  *)
(* caller continues in a later step.                                       *)
(*                                                                         *)
(* Strings are sequences of atoms ("e", "_ask", "_0", ...), so that the    *)
(* f-string concatenation and str.startswith of emit are computed, not     *)
(* assumed.                                                                *)
(***************************************************************************)
EXTENDS Integers, Sequences, FiniteSets, TLC

\* ------------------------------------------------------------------ bounds
\* number of connect() invocations
MaxLoops == 2
\* number of close() invocations
MaxCloses == 1
\* number of transports that exist at the same time
MaxTransports == 2
\* number of one-shot entries registered at the same time
MaxPending == 2
\* number of emit_with_timeout calls whose future exists at the same time
MaxWaits == 2
\* recorded prefix of the status notifications
LogCap == 3
\* recorded prefix of the lifecycle trace of the first connect loop
TraceCap == 8
\* recorded prefix of the connection attempt outcomes
OutCap == 3

\* number of server connections (upgrade requests)
MaxConns == 2
\* number of inbound frames dispatched on one server connection
MaxIn == 2

\* number of frames a transport holds in one direction
MaxFlight == 2
\* number of status listeners registered
MaxStatus == 2
\* recorded prefix of what a connect() invocation does after a handshake
OrderCap == 6

Loops == 1..MaxLoops
Closes == 1..MaxCloses
Transports == 1..MaxTransports
CallIds == 1..MaxWaits
Conns == 1..MaxConns

\* ----------------------------------------------------------------- strings
\* event names used by the application and by the peer
Events == {<<"e">>, <<"f">>}
\* event names the application emits with a callback
EmitEvents == {<<"e">>}
\* names the application registers with on()
OnNames == Events
\* a callback value the client never registered
Stranger == <<"zz">>
\* frame payloads
Data == {"x", "y"}

\* the status listeners the application registers
StatusIds == {"p", "q"}
\* the error text of a (false, reason) notification
Reason == "reason"

\* connection ids of upgrade requests (the `id` request parameter)
Ids == {"a", "b"}
NoId == "noid"

\* the events for which the application object has a method "<event>Event"
NamedEvents == {<<"e">>}

\* correlation tokens in the frames a server receives
Tokens == {<<"t">>, <<"u">>}
\* the value a server handler passes to the reply capability, the value it
\* returns, and the payload of an error event
ReplyX == "x"
ReturnY == "y"
ErrData == "err"
ErrorEvent == <<"error">>

NoCb == <<>>
NoData == "nodata"
Null == "null"

\* str(count) for the counts the model reaches, as one atom with its "_"
Digits == <<"_0", "_1", "_2", "_3", "_4", "_5", "_6", "_7", "_8", "_9">>

\* k.startswith(p)
StartsWith(k, p) == Len(k) >= Len(p) /\ SubSeq(k, 1, Len(p)) = p

\* f"{event}_ask"
AskPrefix(event) == event \o <<"_ask">>

\* len([k for k in self.listener.keys() if k.startswith(_evt)])
CountPrefix(L, event) ==
    Cardinality({k \in DOMAIN L : StartsWith(k, AskPrefix(event))})

\* _evt = f"{event}_ask"; _evt += f"_{count}"
Token(L, event) == AskPrefix(event) \o <<Digits[CountPrefix(L, event) + 1]>>

\* ---------------------------------------------------------------- handlers
\* what a callback does when it is invoked: it is synchronous or suspending,
\* and it returns or raises
CbKinds == {"sync", "async", "raise", "araise"}
NoHandler == [src |-> "none", id |-> 0]
\* the handler on(name, h) registers
OnHandler(name) == [src |-> "on", id |-> 0]
\* a callback the application passes to emit
EmitHandler == [src |-> "emit", id |-> 0]
\* the callback emit_with_timeout builds around the future of call c; it is
\* synchronous and does not raise
FutHandler(c) == [src |-> "emit", id |-> c]
IsFut(h) == h.src = "emit" /\ h.id # 0

Suspends(kind) == kind \in {"async", "araise"}
Raises(kind) == kind \in {"raise", "araise"}

\* the behaviours handler h can show when invoked
KindsOf(h) == IF h = NoHandler \/ IsFut(h) THEN {"sync"} ELSE CbKinds

\* self.listener[event] = callback
RegOn(L, key, h) ==
    [k \in (DOMAIN L) \cup {key} |-> IF k = key THEN h ELSE L[k]]

\* self.listener.pop(event, None)
RegUn(L, key) == [k \in (DOMAIN L) \ {key} |-> L[k]]

EmptyReg == [k \in {} |-> NoHandler]

\* ------------------------------------------------------------------- state
VARIABLES
    running,    \* self._running
    ws,         \* self.ws: a transport, or 0 for None
    session,    \* self.session: a session, or 0 for None
    nsess,      \* number of ClientSession objects created so far
    sopen,      \* the sessions that are not closed
    tstate,     \* transport -> "open", "broken" (connection lost, ws.closed
                \* not yet set) or "closed" (ws.closed)
    tsess,      \* transport -> the session that opened it
    pc,         \* connect() invocation -> where its coroutine is suspended
    iter,       \* connect() invocation -> the transport its `async for` reads
    att,        \* connect() invocation -> the session of its ws_connect call
    hand,       \* connect() invocation -> the frame whose callback it awaits
    cpc,        \* close() invocation -> where its coroutine is suspended
    seen,       \* connect() invocation -> close() was called while it ran
    listener,   \* self.listener: key -> handler
    waiter,     \* emit_with_timeout call -> whether it waits, and its token
    answered,   \* tokens whose one-shot entry a frame has been routed to
    expired,    \* tokens of emit_with_timeout calls that timed out, until
                \* a frame is routed by them
    last,       \* what the step just taken did that an observer can see
    statusLog,  \* the first status notifications, in order
    trace,      \* the first lifecycle states of connect() invocation 1
    outcomes,   \* the first results of its connection attempts
    socket_clients, \* server: self._socket_clients, the (id, connection)
                \* entries in insertion order
    spc,        \* server connection -> where init_websocket is suspended
    sid,        \* server connection -> its _id
    sws,        \* server connection -> state of its WebSocketResponse
    bst,        \* broadcast: "idle", "running", "done" or "raised"
    bq,         \* broadcast: the connections of the snapshot not yet tried
    bgot,       \* broadcast: the connections that took the frame
    bsnap,      \* broadcast: the list its comprehension built
    req,        \* server connection -> request["event"], request["callback"]
    cur,        \* server connection -> the inbound frame being dispatched
                \* or last dispatched, the handlers todo invoked for it,
                \* whether they got the reply capability, what they do
    held,       \* server connection -> the reply capabilities that handlers
                \* kept for a later call, each with its frame's event, token
    out,        \* server connection -> the frames sent on it since the
                \* dispatch of its latest inbound frame began
    nin,        \* server connection -> number of inbound frames dispatched
    up,         \* the frames the client sent that server connection 1 has
                \* not taken yet
    down,       \* the frames server connection 1 sent that the client has
                \* not taken yet
    status_listeners, \* self._status_listeners
    npos,       \* connect() invocation -> number of status listeners its
                \* _notify_status_change call has invoked
    heard,      \* connect() invocation -> the invocations of that call:
                \* listener, arguments, and whether the listener raised
    order       \* what connect() invocation 1 has done since its latest
                \* successful handshake, in order

base == <<running, ws, session, nsess, sopen, tstate, tsess, pc, iter, att,
          hand, cpc, seen, listener, waiter, answered, expired, last>>
hist == <<statusLog, trace, outcomes>>
regVars == <<socket_clients, spc, sid, sws>>
castVars == <<bst, bq, bgot, bsnap>>
taskVars == <<req, cur, held, out, nin>>
srv == <<regVars, castVars, taskVars>>
net == <<up, down>>
noteVars == <<status_listeners, npos, heard>>
ext == <<net, noteVars, order>>
vars == <<base, hist, srv, ext>>

lifeVars == <<running, ws, session, nsess, sopen, tstate, tsess, pc, iter,
              att, cpc, seen>>
msgVars == <<listener, waiter, answered, expired>>

\* what a step shows: a status notification (conn), an emit (its return
\* value ok, and clash: the token it attached was that of a request still
\* waiting for its reply), or the end of the handling of an inbound frame
\* (the handler h it invoked, the branch of handle_message that found it,
\* second: an earlier frame had already been routed by this callback, and
\* left: the entry the callback field selected is registered at the end),
\* and the emit_with_timeout call retc that returns, with its value retv;
\* sent: an emit handed its frame to the transport
NoEvent ==
    [type |-> "none", conn |-> FALSE, ok |-> FALSE, sent |-> FALSE,
     clash |-> FALSE,
     h |-> NoHandler, branch |-> "none", second |-> FALSE, left |-> FALSE,
     retc |-> 0, retv |-> NoData]

Note(connected) == [NoEvent EXCEPT !.type = "note", !.conn = connected]

\* request["event"], request["callback"] before todo set them
NoOrigin == [ev |-> NoCb, cb |-> NoCb]
\* no inbound frame dispatched yet
NoCur == [st |-> "none", kind |-> "ok", ev |-> NoCb, cb |-> NoCb,
          now |-> FALSE, result |-> "none", called |-> {}, cap |-> FALSE]

\* the frame whose suspended callback handle_message awaits
NoHand == [cb |-> NoCb, kind |-> "none", out |-> NoEvent]

NoWaiter == [st |-> "free", token |-> NoCb]

Init ==
    /\ running = FALSE
    /\ ws = 0
    /\ session = 0
    /\ nsess = 0
    /\ sopen = {}
    /\ tstate = [t \in Transports |-> "closed"]
    /\ tsess = [t \in Transports |-> 0]
    /\ pc = [i \in Loops |-> "idle"]
    /\ iter = [i \in Loops |-> 0]
    /\ att = [i \in Loops |-> 0]
    /\ hand = [i \in Loops |-> NoHand]
    /\ cpc = [j \in Closes |-> "idle"]
    /\ seen = [i \in Loops |-> FALSE]
    /\ listener = EmptyReg
    /\ waiter = [c \in CallIds |-> NoWaiter]
    /\ answered = {}
    /\ expired = {}
    /\ last = NoEvent
    /\ statusLog = <<>>
    /\ trace = <<>>
    /\ outcomes = <<>>
    /\ socket_clients = <<>>
    /\ spc = [c \in Conns |-> "new"]
    /\ sid = [c \in Conns |-> NoId]
    /\ sws = [c \in Conns |-> "init"]
    /\ bst = "idle"
    /\ bq = <<>>
    /\ bgot = {}
    /\ bsnap = <<>>
    /\ req = [c \in Conns |-> NoOrigin]
    /\ cur = [c \in Conns |-> NoCur]
    /\ held = [c \in Conns |-> {}]
    /\ out = [c \in Conns |-> <<>>]
    /\ nin = [c \in Conns |-> 0]
    /\ up = <<>>
    /\ down = <<>>
    /\ status_listeners = <<>>
    /\ npos = [i \in Loops |-> 0]
    /\ heard = [i \in Loops |-> <<>>]
    /\ order = <<>>

\* ------------------------------------------------------- connection state
\* ClientSocket.connected
Connected == ws # 0 /\ tstate[ws] # "closed"

Active(i) == pc[i] \notin {"idle", "done"}

\* a transport object nothing refers to any more
Unused(t) == /\ tstate[t] = "closed"
             /\ ws # t
             /\ \A i \in Loops : iter[i] # t

\* ClientSession.close(): the connections of the session are dropped
SessionClosed(ts, s) ==
    [t \in Transports |->
        IF tsess[t] = s /\ ts[t] = "open" THEN "broken" ELSE ts[t]]

\* the lifecycle state of section 3 that a position of connect() stands for
Phase(p) ==
    IF p = "idle" THEN "Idle"
    ELSE IF p \in {"newsession", "connecting"} THEN "Connecting"
    ELSE IF p \in {"notifyT", "hook", "listen", "awaitcb"} THEN "Connected"
    ELSE IF p \in {"notifyF", "cleanup2", "sleep"} THEN "Reconnecting"
    ELSE "Closed"

\* ---------------------------------------------------------------- connect
\* connect(), lines 213-220: close and drop the old transport, then sleep
\* if still running, else leave the loop.  ts is the transport state the
\* caller has reached.
Cleanup(i, ts) ==
    IF ws # 0 /\ ts[ws] # "closed"
    THEN \* await self.ws.close()
         /\ tstate' = [ts EXCEPT ![ws] = "closed"]
         /\ ws' = ws
         /\ pc' = [pc EXCEPT ![i] = "cleanup2"]
    ELSE /\ tstate' = ts
         /\ ws' = 0
         /\ pc' = [pc EXCEPT ![i] = IF running THEN "sleep" ELSE "done"]

\* connect(), lines 166-183, up to the first suspension
Connect(i) ==
    /\ pc[i] = "idle"
    /\ \A j \in Loops : j < i => pc[j] # "idle"
    /\ last' = NoEvent
    /\ IF running
       THEN \* already running: log and return
            /\ pc' = [pc EXCEPT ![i] = "done"]
            /\ UNCHANGED <<running, session, nsess, sopen, tstate, att>>
       ELSE /\ running' = TRUE
            /\ IF session # 0 /\ session \in sopen
               THEN \* await self.session.close()
                    /\ sopen' = sopen \ {session}
                    /\ tstate' = SessionClosed(tstate, session)
                    /\ pc' = [pc EXCEPT ![i] = "newsession"]
                    /\ UNCHANGED <<session, nsess, att>>
               ELSE \* new session, enter the loop, call ws_connect
                    /\ session' = nsess + 1
                    /\ nsess' = nsess + 1
                    /\ sopen' = sopen \cup {nsess + 1}
                    /\ att' = [att EXCEPT ![i] = nsess + 1]
                    /\ pc' = [pc EXCEPT ![i] = "connecting"]
                    /\ UNCHANGED tstate
    /\ UNCHANGED <<ws, tsess, iter, hand, cpc, seen, msgVars>>

\* connect(), lines 178-183, after the old session has been closed
NewSession(i) ==
    /\ pc[i] = "newsession"
    /\ session' = nsess + 1
    /\ nsess' = nsess + 1
    /\ sopen' = sopen \cup {nsess + 1}
    /\ IF running
       THEN /\ att' = [att EXCEPT ![i] = nsess + 1]
            /\ pc' = [pc EXCEPT ![i] = "connecting"]
       ELSE /\ pc' = [pc EXCEPT ![i] = "done"]
            /\ att' = att
    /\ last' = NoEvent
    /\ UNCHANGED <<running, ws, tstate, tsess, iter, hand, cpc, seen, msgVars>>

\* ws_connect returns a transport; lines 183-189 up to the status listeners
AttemptSucceeds(i) ==
    /\ pc[i] = "connecting"
    /\ att[i] \in sopen
    /\ \E t \in Transports :
          /\ Unused(t)
          /\ \A u \in Transports : Unused(u) => t <= u
          /\ ws' = t
          /\ tstate' = [tstate EXCEPT ![t] = "open"]
          /\ tsess' = [tsess EXCEPT ![t] = att[i]]
    /\ pc' = [pc EXCEPT ![i] = "notifyT"]
    /\ last' = Note(TRUE)
    /\ UNCHANGED <<running, session, nsess, sopen, iter, att, hand, cpc, seen,
                   msgVars>>

\* a failed attempt that goes to the clean-up without telling the listeners
AttemptFailsSilently(i) ==
    /\ pc[i] = "connecting"
    /\ pc' = [pc EXCEPT ![i] = "notifyF"]
    /\ last' = NoEvent
    /\ UNCHANGED <<running, ws, session, nsess, sopen, tstate, tsess, iter,
                   att, hand, cpc, seen, msgVars>>

\* ws_connect raises; lines 196-211 up to the status listeners
AttemptFails(i) ==
    /\ pc[i] = "connecting"
    /\ pc' = [pc EXCEPT ![i] = "notifyF"]
    /\ last' = Note(FALSE)
    /\ UNCHANGED <<running, ws, session, nsess, sopen, tstate, tsess, iter,
                   att, hand, cpc, seen, msgVars>>

\* _notify_status_change returns: after_connect is called (line 190), or,
\* after a failure, the clean-up of lines 213-220 runs
NotifyDone(i) ==
    /\ pc[i] \in {"notifyT", "notifyF"}
    /\ IF pc[i] = "notifyT"
       THEN /\ pc' = [pc EXCEPT ![i] = "hook"]
            /\ UNCHANGED <<ws, tstate>>
       ELSE Cleanup(i, tstate)
    /\ last' = NoEvent
    /\ UNCHANGED <<running, session, nsess, sopen, tsess, iter, att, hand, cpc,
                   seen, msgVars>>

\* another connect() invocation is waiting in receive() on transport t: a
\* second receive() raises RuntimeError (aiohttp allows no concurrent call)
Busy(i, t) == \E j \in Loops \ {i} : pc[j] = "listen" /\ iter[j] = t

\* after_connect returns: listen_messages starts (lines 191, 236-242)
HookReturns(i) ==
    /\ pc[i] = "hook"
    /\ IF ws = 0 \/ Busy(i, ws)
       THEN \* `if not self.ws: return`, or the exception caught at line
            \* 251; then the clean-up
            /\ Cleanup(i, tstate)
            /\ iter' = iter
       ELSE /\ iter' = [iter EXCEPT ![i] = ws]
            /\ pc' = [pc EXCEPT ![i] = "listen"]
            /\ UNCHANGED <<ws, tstate>>
    /\ last' = NoEvent
    /\ UNCHANGED <<running, session, nsess, sopen, tsess, att, hand, cpc, seen,
                   msgVars>>

\* a connect() that is ended by the exception of after_connect
HookRaisesEndsLoop(i) ==
    /\ pc[i] = "hook"
    /\ pc' = [pc EXCEPT ![i] = "done"]
    /\ last' = NoEvent
    /\ UNCHANGED <<running, ws, session, nsess, sopen, tstate, tsess, iter,
                   att, hand, cpc, seen, msgVars>>

\* after_connect raises: `except Exception`, lines 208-211
HookRaises(i) ==
    /\ pc[i] = "hook"
    /\ pc' = [pc EXCEPT ![i] = "notifyF"]
    /\ last' = Note(FALSE)
    /\ UNCHANGED <<running, ws, session, nsess, sopen, tstate, tsess, iter,
                   att, hand, cpc, seen, msgVars>>

\* a receive loop that resets the registry when it is left
ListenExitResets(i) ==
    /\ pc[i] = "listen"
    /\ tstate[iter[i]] # "open"
    /\ Cleanup(i, [tstate EXCEPT ![iter[i]] = "closed"])
    /\ iter' = [iter EXCEPT ![i] = 0]
    /\ last' = NoEvent
    /\ listener' = EmptyReg
    /\ UNCHANGED <<running, session, nsess, sopen, tsess, att, hand, cpc, seen,
                   waiter, answered, expired>>

\* the transport yields CLOSED or ERROR, or the iteration ends: the receive
\* loop is left (lines 245-252), connect logs (line 194) and cleans up
ListenExit(i) ==
    /\ pc[i] = "listen"
    /\ tstate[iter[i]] # "open"
    /\ Cleanup(i, [tstate EXCEPT ![iter[i]] = "closed"])
    /\ iter' = [iter EXCEPT ![i] = 0]
    /\ last' = NoEvent
    /\ UNCHANGED <<running, session, nsess, sopen, tsess, att, hand, cpc, seen,
                   msgVars>>

\* `await self.ws.close()` of line 215 returns; lines 216-220
Cleanup2(i) ==
    /\ pc[i] = "cleanup2"
    /\ ws' = 0
    /\ pc' = [pc EXCEPT ![i] = IF running THEN "sleep" ELSE "done"]
    /\ last' = NoEvent
    /\ UNCHANGED <<running, session, nsess, sopen, tstate, tsess, iter, att,
                   hand, cpc, seen, msgVars>>

\* asyncio.sleep(re_delay) returns: the `while self._running` test and the
\* next ws_connect call (lines 180-183)
Wake(i) ==
    /\ pc[i] = "sleep"
    /\ IF ~running
       THEN /\ pc' = [pc EXCEPT ![i] = "done"]
            /\ last' = NoEvent
            /\ att' = att
       ELSE IF session = 0
       THEN \* self.session is None: AttributeError, `except Exception`
            /\ pc' = [pc EXCEPT ![i] = "notifyF"]
            /\ last' = Note(FALSE)
            /\ att' = att
       ELSE /\ pc' = [pc EXCEPT ![i] = "connecting"]
            /\ att' = [att EXCEPT ![i] = session]
            /\ last' = NoEvent
    /\ UNCHANGED <<running, ws, session, nsess, sopen, tstate, tsess, iter,
                   hand, cpc, seen, msgVars>>

\* the peer closes the connection, or the connection is lost
PeerClose(t) ==
    /\ tstate[t] = "open"
    /\ tstate' = [tstate EXCEPT ![t] = "broken"]
    /\ last' = NoEvent
    /\ UNCHANGED <<running, ws, session, nsess, sopen, tsess, pc, iter, att,
                   hand, cpc, seen, msgVars>>

\* ------------------------------------------------------------------ close
\* close(), lines 230-234: the session part
CloseSession(j) ==
    IF session # 0 /\ session \in sopen
    THEN \* await self.session.close()
         /\ sopen' = sopen \ {session}
         /\ cpc' = [cpc EXCEPT ![j] = "c_sess"]
    ELSE /\ cpc' = [cpc EXCEPT ![j] = "done"]
         /\ sopen' = sopen

\* close(), lines 224-231, up to the first suspension
Close1(j) ==
    /\ cpc[j] = "idle"
    /\ \A k \in Closes : k < j => cpc[k] # "idle"
    /\ running' = FALSE
    /\ seen' = [i \in Loops |-> seen[i] \/ Active(i)]
    /\ IF ws # 0 /\ tstate[ws] # "closed"
       THEN \* await self.ws.close()
            /\ tstate' = [tstate EXCEPT ![ws] = "closed"]
            /\ cpc' = [cpc EXCEPT ![j] = "c_ws"]
            /\ sopen' = sopen
       ELSE /\ CloseSession(j)
            /\ tstate' = IF session # 0 /\ session \in sopen
                          THEN SessionClosed(tstate, session) ELSE tstate
    /\ last' = NoEvent
    /\ UNCHANGED <<ws, session, nsess, tsess, pc, iter, att, hand, msgVars>>

\* `await self.ws.close()` of line 227 returns; lines 228-231
Close2(j) ==
    /\ cpc[j] = "c_ws"
    /\ ws' = 0
    /\ CloseSession(j)
    /\ tstate' = IF session # 0 /\ session \in sopen
                  THEN SessionClosed(tstate, session) ELSE tstate
    /\ last' = NoEvent
    /\ UNCHANGED <<running, session, nsess, tsess, pc, iter, att, hand, seen,
                   msgVars>>

\* `await self.session.close()` of line 231 returns; lines 232-234
Close3(j) ==
    /\ cpc[j] = "c_sess"
    /\ session' = 0
    /\ cpc' = [cpc EXCEPT ![j] = "done"]
    /\ last' = NoEvent
    /\ UNCHANGED <<running, ws, nsess, sopen, tstate, tsess, pc, iter, att,
                   hand, seen, msgVars>>

\* --------------------------------------------------------------- registry
\* on(event, callback), lines 125-134
On(name) ==
    /\ listener' = RegOn(listener, name, OnHandler(name))
    /\ last' = NoEvent
    /\ UNCHANGED <<lifeVars, hand, waiter, answered, expired>>

\* un(event), lines 136-144
Un(name) ==
    /\ name \in DOMAIN listener
    /\ listener' = RegUn(listener, name)
    /\ last' = NoEvent
    /\ UNCHANGED <<lifeVars, hand, waiter, answered, expired>>

\* ------------------------------------------------------------------- emit
\* the entries emit registered
OneShots == {k \in DOMAIN listener : listener[k].src = "emit"}

\* the one-shot entries whose reply has not been received yet
Outstanding == OneShots \ answered

\* ws.send_json(message), line 314: the transport takes the frame, or the
\* call raises because the connection is lost or closing
SendJson(t) == IF tstate[t] = "open" THEN "sent" ELSE "raise"

\* an emit that reports success whatever the send did
EmitReturnsTrue(outcome) == TRUE

\* the value emit returns, lines 314-318: True after send_json returned,
\* False from the `except Exception` block
EmitReturn(outcome) == outcome = "sent"

\* what an emit shows: outcome is "none" when it returned at line 302
Tx(tok, outcome) ==
    [NoEvent EXCEPT !.type = "tx",
                    !.ok = (outcome # "none" /\ EmitReturn(outcome)),
                    !.sent = (outcome = "sent"),
                    !.clash = (tok \in Outstanding)]

\* an emit that registers the callback before it tests the connection
EmitBodyRegistersFirst(event, h) ==
    LET tok == Token(listener, event)
    IN  /\ Cardinality(OneShots) < MaxPending
        /\ listener' = RegOn(listener, tok, h)
        /\ answered' = answered \ {tok}
        /\ last' = IF Connected THEN Tx(tok, SendJson(ws))
                                ELSE Tx(NoCb, "none")

\* emit(event, data, callback), lines 300-318, with a callback h.  The
\* frame is sent iff the transport still works; otherwise send_json raises
\* and emit returns False.
EmitBody(event, h) ==
    IF ~Connected
    THEN /\ last' = Tx(NoCb, "none")
         /\ UNCHANGED <<listener, answered>>
    ELSE LET tok == Token(listener, event)
         IN  /\ Cardinality(OneShots) < MaxPending
             /\ listener' = RegOn(listener, tok, h)
             /\ answered' = answered \ {tok}
             /\ last' = Tx(tok, SendJson(ws))

Emit(event) ==
    /\ EmitBody(event, EmitHandler)
    /\ UNCHANGED <<lifeVars, hand, waiter, expired>>

\* a future no call waits on and no registered callback refers to
FreeCall(c) ==
    /\ waiter[c].st = "free"
    /\ \A k \in DOMAIN listener : listener[k] # FutHandler(c)
    /\ \A i \in Loops : hand[i].out.h # FutHandler(c)

\* emit_with_timeout(event, data, timeout), lines 334-349, up to wait_for;
\* it returns None at once when emit returns False
EmitWithTimeout(event, c) ==
    /\ FreeCall(c)
    /\ \A d \in CallIds : FreeCall(d) => c <= d
    /\ EmitBody(event, FutHandler(c))
    /\ waiter' = [waiter EXCEPT ![c] =
          IF Connected /\ tstate[ws] = "open"
          THEN [st |-> "waiting", token |-> Token(listener, event)]
          ELSE NoWaiter]
    /\ UNCHANGED <<lifeVars, hand, expired>>

\* wait_for times out, lines 350-352: the call returns None
Timeout(c) ==
    /\ waiter[c].st = "waiting"
    /\ waiter' = [waiter EXCEPT ![c] = NoWaiter]
    /\ expired' = expired \cup {waiter[c].token}
    /\ last' = [NoEvent EXCEPT !.type = "ret", !.retc = c, !.retv = Null]
    /\ UNCHANGED <<lifeVars, hand, listener, answered>>

\* --------------------------------------------------------- inbound frames
\* the inbound text frames: JSON objects, and text that is not JSON
BadJson == [ev |-> NoCb, cb |-> NoCb, data |-> NoData, json |-> FALSE]
Frames ==
    {BadJson} \cup
    [ev : Events,
     cb : {NoCb, Stranger} \cup DOMAIN listener \cup answered
            \cup {waiter[c].token : c \in CallIds},
     data : Data,
     json : {TRUE}]

\* a routing that drops every frame whose callback field is not registered
RouteDropsUnmatched(L, f) ==
    IF ~f.json THEN "bad"
    ELSE IF f.cb # NoCb
    THEN IF f.cb \in DOMAIN L THEN "cb" ELSE "none"
    ELSE IF f.ev \in DOMAIN L THEN "ev"
    ELSE "none"

\* handle_message, lines 262-276: which entry a frame is routed to
Route(L, f) ==
    IF ~f.json THEN "bad"
    ELSE IF f.cb # NoCb /\ f.cb \in DOMAIN L THEN "cb"
    ELSE IF f.ev \in DOMAIN L THEN "ev"
    ELSE "none"

Lookup(L, k) == IF k \in DOMAIN L THEN L[k] ELSE NoHandler

\* the handler handle_message invokes for frame f
Fired(L, f) ==
    IF Route(L, f) = "cb" THEN L[f.cb]
    ELSE IF Route(L, f) = "ev" THEN L[f.ev]
    ELSE NoHandler

\* the call whose future the callback of emit_with_timeout completes
\* (lines 340-342), or 0: the future of a call that timed out is done
Completes(h) == IF IsFut(h) /\ waiter[h.id].st = "waiting" THEN h.id ELSE 0

\* what the handling of frame f shows when it ends with registry L2
Rx(f, L2) ==
    [NoEvent EXCEPT !.type = "rx",
                    !.h = Fired(listener, f),
                    !.branch = Route(listener, f),
                    !.second = (f.cb \in answered),
                    !.left = (Route(listener, f) = "cb"
                              /\ f.cb \in DOMAIN L2),
                    !.retc = Completes(Fired(listener, f)),
                    !.retv = IF Completes(Fired(listener, f)) # 0
                             THEN f.data ELSE NoData]

\* wait_for returns the result of the future
Resolve(w, h) ==
    [c \in CallIds |-> IF c = Completes(h) THEN NoWaiter ELSE w[c]]

\* self.un(callback_id) of line 268: reached in the callback branch when
\* the callback has not raised
AfterCallback(L, branch, kind, cb) ==
    IF branch = "cb" /\ ~Raises(kind) THEN RegUn(L, cb) ELSE L

\* a receive loop that is ended by a frame that is not JSON
ReceiveFatal(i, f, kind) ==
    /\ pc[i] = "listen"
    /\ tstate[iter[i]] = "open"
    /\ kind \in KindsOf(Fired(listener, f))
    /\ LET h == Fired(listener, f)
           b == Route(listener, f)
       IN  /\ waiter' = Resolve(waiter, h)
           /\ answered' = IF b = "cb" /\ h.src = "emit"
                           THEN answered \cup {f.cb} ELSE answered
           /\ expired' = IF b = "cb" THEN expired \ {f.cb} ELSE expired
           /\ IF Suspends(kind)
              THEN /\ pc' = [pc EXCEPT ![i] = "awaitcb"]
                   /\ hand' = [hand EXCEPT ![i] =
                                  [cb |-> f.cb, kind |-> kind,
                                   out |-> Rx(f, listener)]]
                   /\ last' = NoEvent
                   /\ listener' = listener
              ELSE /\ listener' = AfterCallback(listener, b, kind, f.cb)
                   /\ last' = Rx(f, listener')
                   /\ pc' = [pc EXCEPT ![i] =
                                IF b = "bad" THEN "cleanup2" ELSE "listen"]
                   /\ hand' = hand
    /\ UNCHANGED <<running, ws, session, nsess, sopen, tstate, tsess, iter,
                   att, cpc, seen>>

\* listen_messages takes a text frame and handle_message runs (lines
\* 242-244, 254-281) to its end or to the await of a suspending callback;
\* kind is what the invoked callback does
Receive(i, f, kind) ==
    /\ pc[i] = "listen"
    /\ tstate[iter[i]] = "open"
    /\ kind \in KindsOf(Fired(listener, f))
    /\ LET h == Fired(listener, f)
           b == Route(listener, f)
       IN  /\ waiter' = Resolve(waiter, h)
           /\ answered' = IF b = "cb" /\ h.src = "emit"
                           THEN answered \cup {f.cb} ELSE answered
           /\ expired' = IF b = "cb" THEN expired \ {f.cb} ELSE expired
           /\ IF Suspends(kind)
              THEN \* `await result`
                   /\ pc' = [pc EXCEPT ![i] = "awaitcb"]
                   /\ hand' = [hand EXCEPT ![i] =
                                  [cb |-> f.cb, kind |-> kind,
                                   out |-> Rx(f, listener)]]
                   /\ last' = NoEvent
                   /\ listener' = listener
              ELSE /\ listener' = AfterCallback(listener, b, kind, f.cb)
                   /\ last' = Rx(f, listener')
                   /\ UNCHANGED <<pc, hand>>
    /\ UNCHANGED <<running, ws, session, nsess, sopen, tstate, tsess, iter,
                   att, cpc, seen>>

\* the suspending callback finishes: lines 267-268, or 280-281 if it raised;
\* `async for` calls receive() again, which raises when another connect()
\* invocation is waiting in it (caught at line 251; then the clean-up)
CallbackEnds(i) ==
    /\ pc[i] = "awaitcb"
    /\ listener' = AfterCallback(listener, hand[i].out.branch, hand[i].kind,
                                 hand[i].cb)
    /\ IF Busy(i, iter[i])
       THEN /\ Cleanup(i, tstate)
            /\ iter' = [iter EXCEPT ![i] = 0]
       ELSE /\ pc' = [pc EXCEPT ![i] = "listen"]
            /\ UNCHANGED <<ws, tstate, iter>>
    /\ last' = [hand[i].out EXCEPT
                   !.left = (hand[i].out.branch = "cb"
                             /\ hand[i].cb \in DOMAIN listener')]
    /\ hand' = [hand EXCEPT ![i] = NoHand]
    /\ UNCHANGED <<running, session, nsess, sopen, tsess, att, cpc, seen,
                   waiter, answered, expired>>

\* ------------------------------------------------ server: the registry
\* self._socket_clients[_id] = io
Put(R, k, c) ==
    IF \E n \in 1..Len(R) : R[n].id = k
    THEN [n \in 1..Len(R) |->
             IF R[n].id = k THEN [id |-> k, io |-> c] ELSE R[n]]
    ELSE Append(R, [id |-> k, io |-> c])

\* self._socket_clients.pop(_id, None)
Pop(R, k) == SelectSeq(R, LAMBDA e : e.id # k)

\* the weak dictionary drops the entry of a connection object that has
\* been reclaimed
Drop(R, c) == SelectSeq(R, LAMBDA e : e.io # c)

Registered(c) == \E n \in 1..Len(socket_clients) : socket_clients[n].io = c

\* ws.send_json on a WebSocketResponse: it raises before prepare() and on
\* a lost, closing or closed connection
Sendable(c) == sws[c] = "open"

\* init_websocket, lines 82-92 up to `await ws.prepare(request)`, or to the
\* return of the 400 response when can_prepare fails.  The locals ws and io
\* die with that return, and the weak dictionary drops the entry that
\* holds io.
Upgrade(c, k, valid) ==
    /\ spc[c] = "new"
    /\ \A d \in Conns : d < c => spc[d] # "new"
    /\ sid' = [sid EXCEPT ![c] = k]
    /\ IF valid
       THEN /\ socket_clients' = Put(socket_clients, k, c)
            /\ spc' = [spc EXCEPT ![c] = "preparing"]
       ELSE /\ spc' = [spc EXCEPT ![c] = "rejected"]
            /\ socket_clients' = Drop(Put(socket_clients, k, c), c)
    /\ UNCHANGED <<sws, castVars, taskVars>>

\* ws.prepare returns, line 92: the receive loop starts
Prepared(c) ==
    /\ spc[c] = "preparing"
    /\ spc' = [spc EXCEPT ![c] = "loop"]
    /\ sws' = [sws EXCEPT ![c] = "open"]
    /\ UNCHANGED <<socket_clients, sid, castVars, taskVars>>

\* ws.prepare raises, line 92, outside the try block
PrepareFails(c) ==
    /\ spc[c] = "preparing"
    /\ spc' = [spc EXCEPT ![c] = "aborted"]
    /\ UNCHANGED <<socket_clients, sid, sws, castVars, taskVars>>

\* the peer closes the connection (ws.closed becomes true), or the
\* connection is lost
Gone(c, how) ==
    /\ sws[c] = "open"
    /\ how \in {"closed", "lost"}
    /\ sws' = [sws EXCEPT ![c] = how]
    /\ UNCHANGED <<socket_clients, spc, sid, castVars, taskVars>>

\* the finally block, lines 119-122
Finally(c) ==
    IF sws[c] # "closed"
    THEN \* await ws.close()
         /\ sws' = [sws EXCEPT ![c] = "closed"]
         /\ spc' = [spc EXCEPT ![c] = "closing"]
         /\ UNCHANGED socket_clients
    ELSE /\ socket_clients' = Pop(socket_clients, sid[c])
         /\ spc' = [spc EXCEPT ![c] = "done"]
         /\ UNCHANGED sws

\* `async for msg in ws` ends, line 95: the connection was closed or lost
LoopExit(c) ==
    /\ spc[c] = "loop"
    /\ sws[c] # "open"
    /\ Finally(c)
    /\ UNCHANGED <<sid, castVars, taskVars>>

\* the handler task is cancelled while it waits for a message
Cancelled(c) ==
    /\ spc[c] = "loop"
    /\ Finally(c)
    /\ UNCHANGED <<sid, castVars, taskVars>>

\* `await ws.close()` of line 121 returns; line 122
CloseReturns(c) ==
    /\ spc[c] = "closing"
    /\ socket_clients' = Pop(socket_clients, sid[c])
    /\ spc' = [spc EXCEPT ![c] = "done"]
    /\ UNCHANGED <<sid, sws, castVars, taskVars>>

\* `await ws.close()` of line 121 raises (cancellation, timeout): line 122
\* is not reached
CloseRaises(c) ==
    /\ spc[c] = "closing"
    /\ spc' = [spc EXCEPT ![c] = "raised"]
    /\ UNCHANGED <<socket_clients, sid, sws, castVars, taskVars>>

\* the connection object of an init_websocket call that an exception left
\* is reclaimed, once nothing holds the exception any more
Reclaim(c) ==
    /\ spc[c] \in {"aborted", "raised"}
    /\ Registered(c)
    /\ socket_clients' = Drop(socket_clients, c)
    /\ UNCHANGED <<spc, sid, sws, castVars, taskVars>>

\* ----------------------------------------------- server: broadcast
\* KitHttp.broadcast, lines 140-142: the snapshot of the connections that
\* pass the filter F
Snapshot(F) ==
    LET picked == SelectSeq(socket_clients, LAMBDA e : e.io \in F)
    IN  [n \in 1..Len(picked) |-> picked[n].io]

BroadcastStart(F) ==
    /\ bst # "running"
    /\ bq' = Snapshot(F)
    /\ bst' = IF Snapshot(F) = <<>> THEN "done" ELSE "running"
    /\ bgot' = {}
    /\ bsnap' = Snapshot(F)
    /\ UNCHANGED <<regVars, taskVars>>

\* `await io.emit(event, data)`, line 143, for the next connection of the
\* snapshot; an exception of send_json leaves broadcast
BroadcastSend ==
    /\ bst = "running"
    /\ bq' = Tail(bq)
    /\ IF Sendable(Head(bq))
       THEN /\ bgot' = bgot \cup {Head(bq)}
            /\ bst' = IF Tail(bq) = <<>> THEN "done" ELSE "running"
       ELSE /\ bgot' = bgot
            /\ bst' = "raised"
    /\ UNCHANGED <<bsnap, regVars, taskVars>>

\* ------------------------------------------------- server: dispatch
\* the text frames a server connection receives: JSON objects, text that is
\* not JSON, and JSON that is not an object
SrvFrames ==
    [kind : {"ok"}, ev : Events, cb : Tokens \cup {NoCb}]
        \cup [kind : {"badjson", "notobject"}, ev : {NoCb}, cb : {NoCb}]

\* a frame sent on a server connection; by tells what sent it ("reply": the
\* reply capability called by the running handler, "late": the capability
\* called after its handler returned, "value": the handler's return value,
\* "error": an except block) and orig the event and token of the inbound
\* frame the capability was handed out for
Sent(ev, data, cb, by, orig) ==
    [ev |-> ev, data |-> data, cb |-> cb, by |-> by, orig |-> orig]

\* ask(data, io, request), lines 34-39: the frame is built from the
\* request's keys as they are when ask is called
AskFrame(r, data, by, orig) == Sent(r.ev, data, r.cb, by, orig)

\* the frames the dispatch of the inbound frame itself sent
Own(q) == SelectSeq(q, LAMBDA m : m.by # "late")

\* an except block that goes on without telling the peer
ErrorReplySilent(c, q) ==
    /\ out' = [out EXCEPT ![c] = q]
    /\ spc' = [spc EXCEPT ![c] = "loop"]
    /\ UNCHANGED <<sws, socket_clients>>

\* `await io.emit("error", ...)` in an except block (lines 75, 101, 103),
\* with q the frames sent so far: the loop goes on, or, when send_json
\* raises, the exception leaves the loop for the finally block
ErrorReply(c, q) ==
    IF Sendable(c)
    THEN /\ out' = [out EXCEPT ![c] =
                       Append(q, Sent(ErrorEvent, ErrData, NoCb, "error",
                                      NoOrigin))]
         /\ spc' = [spc EXCEPT ![c] = "loop"]
         /\ UNCHANGED <<sws, socket_clients>>
    ELSE /\ out' = [out EXCEPT ![c] = q]
         /\ Finally(c)

\* a todo whose follow-up frame is left out when the handler has replied
ReturnValueUnlessReplied(c) ==
    IF cur[c].now
    THEN /\ spc' = [spc EXCEPT ![c] = "loop"]
         /\ UNCHANGED <<out, sws, socket_clients>>
    ELSE /\ out' = [out EXCEPT ![c] =
                       Append(out[c], Sent(cur[c].ev, ReturnY, NoCb, "value",
                                           NoOrigin))]
         /\ spc' = [spc EXCEPT ![c] = "loop"]
         /\ UNCHANGED <<sws, socket_clients>>

\* `if value: await io.emit(event, value)`, lines 71-72, with a value and a
\* transport that takes the frame
ReturnValue(c) ==
    /\ out' = [out EXCEPT ![c] =
                  Append(out[c], Sent(cur[c].ev, ReturnY, NoCb, "value",
                                      NoOrigin))]
    /\ spc' = [spc EXCEPT ![c] = "loop"]
    /\ UNCHANGED <<sws, socket_clients>>

\* a todo that calls the generic handler whatever the event is
HandlersGenericOnly(ev) == {"generic"}

\* the handlers todo invokes for event ev, lines 66-70: the method
\* "<event>Event" of the application object when it has one, else the
\* handler of the route
Handlers(ev) == IF ev \in NamedEvents THEN {"named"} ELSE {"generic"}

\* kwargs["callback"] = ask, lines 60-63: whether the handler is handed the
\* reply capability
Capability(cb) == cb # NoCb

\* a text frame is taken from the connection (lines 95-99) and todo runs
\* (lines 51-70) until the handler first suspends.  The handler calls the
\* reply capability at once (now), keeps it for a later call (keep), and
\* will return a value, return nothing or raise (result).
Dispatch(c, f, now, keep, result) ==
    /\ spc[c] = "loop"
    /\ sws[c] \in {"open", "lost"}
    /\ nin[c] < MaxIn
    /\ f.kind # "ok" => (~now /\ ~keep /\ result = "none")
    /\ f.cb = NoCb => (~now /\ ~keep)
    /\ nin' = [nin EXCEPT ![c] = nin[c] + 1]
    /\ IF f.kind # "ok"
       THEN \* json.loads or payload.get raises: lines 100-106
            /\ cur' = [cur EXCEPT ![c] =
                          [NoCur EXCEPT !.st = "ended", !.kind = f.kind]]
            /\ ErrorReply(c, <<>>)
            /\ UNCHANGED <<req, held>>
       ELSE LET r == IF f.cb # NoCb THEN [ev |-> f.ev, cb |-> f.cb]
                                    ELSE req[c]
                o == [ev |-> f.ev, cb |-> f.cb]
            IN  /\ req' = [req EXCEPT ![c] = r]
                /\ held' = [held EXCEPT ![c] =
                               IF keep THEN held[c] \cup {o} ELSE held[c]]
                /\ out' = [out EXCEPT ![c] =
                              IF now /\ Sendable(c)
                              THEN <<AskFrame(r, ReplyX, "reply", o)>>
                              ELSE <<>>]
                /\ cur' = [cur EXCEPT ![c] =
                              [st |-> "running", kind |-> "ok", ev |-> f.ev,
                               cb |-> f.cb, now |-> now,
                               result |-> IF now /\ ~Sendable(c)
                                          THEN "raise" ELSE result,
                               called |-> Handlers(f.ev),
                               cap |-> Capability(f.cb)]]
                /\ spc' = [spc EXCEPT ![c] = "handling"]
                /\ UNCHANGED <<sws, socket_clients>>
    /\ UNCHANGED <<sid, castVars>>

\* the handler returns or raises: lines 70-75
HandlerEnds(c) ==
    /\ spc[c] = "handling"
    /\ cur' = [cur EXCEPT ![c].st = "ended"]
    /\ IF cur[c].result = "none"
       THEN /\ spc' = [spc EXCEPT ![c] = "loop"]
            /\ UNCHANGED <<out, sws, socket_clients>>
       ELSE IF cur[c].result = "value" /\ Sendable(c)
       THEN ReturnValue(c)
       ELSE ErrorReply(c, out[c])
    /\ UNCHANGED <<sid, castVars, req, held, nin>>

\* a reply capability that a handler kept is called after the handler has
\* returned: ask sends unless ws.closed; on a lost connection send_json
\* raises in the caller's task
LateAsk(c, h) ==
    /\ h \in held[c]
    /\ spc[c] \in {"loop", "handling"}
    /\ held' = [held EXCEPT ![c] = held[c] \ {h}]
    /\ out' = [out EXCEPT ![c] =
                  IF Sendable(c)
                  THEN Append(out[c], AskFrame(req[c], ReplyX, "late", h))
                  ELSE out[c]]
    /\ UNCHANGED <<regVars, castVars, req, cur, nin>>

\* ------------------------------------------------------- status listeners
\* add_status_listener(listener), lines 146-156
AddStatusListener(l) ==
    /\ Len(status_listeners) < MaxStatus
    /\ status_listeners' = Append(status_listeners, l)
    /\ UNCHANGED <<npos, heard>>

\* the arguments of the notification connect() invocation i is making:
\* line 189 passes True and no error, lines 206 and 211 False and the text
Notice(i) ==
    IF pc[i] = "notifyT" THEN [connected |-> TRUE, error |-> Null]
                         ELSE [connected |-> FALSE, error |-> Reason]

\* what _notify_status_change knows of one invocation of a listener
Heard(i, l, raised) ==
    [l |-> l, connected |-> Notice(i).connected, error |-> Notice(i).error,
     raised |-> raised]

\* a notification whose loop is left by the exception of a listener
StatusListenerUncaught(i, raised) ==
    /\ pc[i] \in {"notifyT", "notifyF"}
    /\ npos[i] < Len(status_listeners)
    /\ heard' = [heard EXCEPT ![i] =
          Append(IF npos[i] = 0 THEN <<>> ELSE heard[i],
                 Heard(i, status_listeners[npos[i] + 1], raised))]
    /\ npos' = [npos EXCEPT ![i] =
          IF raised THEN Len(status_listeners) ELSE npos[i] + 1]
    /\ UNCHANGED status_listeners

\* _notify_status_change, lines 160-164: the next listener of the list is
\* awaited; it returns, or it raises and the exception is logged
StatusListener(i, raised) ==
    /\ pc[i] \in {"notifyT", "notifyF"}
    /\ npos[i] < Len(status_listeners)
    /\ heard' = [heard EXCEPT ![i] =
          Append(IF npos[i] = 0 THEN <<>> ELSE heard[i],
                 Heard(i, status_listeners[npos[i] + 1], raised))]
    /\ npos' = [npos EXCEPT ![i] = npos[i] + 1]
    /\ UNCHANGED status_listeners

\* the `for` of line 160 has reached the end of the list:
\* _notify_status_change returns to connect()
NotifyReturns(i) ==
    /\ npos[i] >= Len(status_listeners)
    /\ NotifyDone(i)
    /\ npos' = [npos EXCEPT ![i] = 0]
    /\ UNCHANGED <<status_listeners, heard>>

\* ------------------------------------------- client and server together
\* the client's transport is the peer of server connection 1: what the
\* client sends is what that connection receives, and the other way round

\* ws_connect returns once the server has answered the upgrade request
EchoConnected ==
    /\ spc[1] = "loop"
    /\ AttemptSucceeds(1)

\* the message emit sends, lines 304-314
EmitFrame(event) ==
    [kind |-> "ok", ev |-> event, cb |-> Token(listener, event)]

\* emit(event, data, callback): send_json hands the frame to the transport
EchoEmit(event) ==
    /\ Len(up) < MaxFlight
    /\ Emit(event)
    /\ up' = IF Connected /\ SendJson(ws) = "sent"
             THEN Append(up, EmitFrame(event)) ELSE up
    /\ down' = down

\* the frames of q sent after the first n
Since(q, n) == SubSeq(q, n + 1, Len(q))

\* the server connection takes the oldest frame the client sent; what the
\* dispatch sends goes to the client
EchoDispatch(now, result) ==
    /\ up # <<>>
    /\ Dispatch(1, Head(up), now, FALSE, result)
    /\ up' = Tail(up)
    /\ down' = down \o out'[1]

EchoHandlerEnds ==
    /\ HandlerEnds(1)
    /\ down' = down \o Since(out'[1], Len(out[1]))
    /\ up' = up

\* json.loads(message) of the text the server sent, lines 257-260
ToClient(m) == [ev |-> m.ev, cb |-> m.cb, data |-> m.data, json |-> TRUE]

\* the client takes the oldest frame the server sent
EchoReceive(kind) ==
    /\ down # <<>>
    /\ Receive(1, ToClient(Head(down)), kind)
    /\ down' = Tail(down)
    /\ up' = up

\* -------------------------------------------------------------- observers
Capped(q, x, cap) == IF Len(q) < cap THEN Append(q, x) ELSE q

\* records the status notifications, and for connect() invocation 1 the
\* lifecycle states it enters, the delays it sits out and the results of
\* its connection attempts
Observe ==
    /\ statusLog' = IF last'.type = "note"
                     THEN Capped(statusLog, last'.conn, LogCap)
                     ELSE statusLog
    /\ trace' =
         LET slept == IF pc[1] = "sleep" /\ pc'[1] # "sleep"
                      THEN Capped(trace, "Delay", TraceCap) ELSE trace
         IN  IF Phase(pc'[1]) # Phase(pc[1])
             THEN Capped(slept, Phase(pc'[1]), TraceCap) ELSE slept
    /\ outcomes' =
         IF pc[1] = "connecting" /\ pc'[1] = "notifyT"
         THEN Capped(outcomes, "ok", OutCap)
         ELSE IF pc[1] \in {"connecting", "sleep"} /\ pc'[1] = "notifyF"
         THEN Capped(outcomes, "fail", OutCap)
         ELSE outcomes

\* records what connect() invocation 1 does after a successful handshake
\* (lines 183-211): "S" the handshake succeeded,
\* "L+" and "L-" a status listener was invoked with (true,
\* null) and (false, reason), "N+" and "N-" the end of such a notification,
\* "H" and "HX" after_connect returned and raised, "F" the handling of an
\* inbound frame began
Watch ==
    order' =
        IF pc[1] = "connecting" /\ pc'[1] = "notifyT" THEN <<"S">>
        ELSE IF npos'[1] > npos[1]
        THEN Capped(order,
                    IF Notice(1) = [connected |-> TRUE, error |-> Null]
                    THEN "L+"
                    ELSE IF Notice(1) = [connected |-> FALSE, error |-> Reason]
                    THEN "L-" ELSE "L?", OrderCap)
        ELSE IF pc[1] = "notifyT" /\ pc'[1] # "notifyT"
        THEN Capped(order, "N+", OrderCap)
        ELSE IF pc[1] = "notifyF" /\ pc'[1] # "notifyF"
        THEN Capped(order, "N-", OrderCap)
        ELSE IF pc[1] = "hook" /\ pc'[1] # "hook"
        THEN Capped(order, IF pc'[1] = "notifyF" THEN "HX" ELSE "H", OrderCap)
        ELSE IF pc[1] = "listen" /\ (pc'[1] = "awaitcb" \/ last'.type = "rx")
        THEN Capped(order, "F", OrderCap)
        ELSE order

\* ----------------------------------------------------------- specifications
\* the connection lifecycle: connect() and close() calls in any interleaving
LifeNext ==
    \/ \E i \in Loops : Connect(i) /\ UNCHANGED <<hist, srv, ext>>
    \/ \E i \in Loops : NewSession(i) /\ UNCHANGED <<hist, srv, ext>>
    \/ \E i \in Loops : AttemptSucceeds(i) /\ UNCHANGED <<hist, srv, ext>>
    \/ \E i \in Loops : AttemptFails(i) /\ UNCHANGED <<hist, srv, ext>>
    \/ \E i \in Loops : NotifyDone(i) /\ UNCHANGED <<hist, srv, ext>>
    \/ \E i \in Loops : HookReturns(i) /\ UNCHANGED <<hist, srv, ext>>
    \/ \E i \in Loops : HookRaises(i) /\ UNCHANGED <<hist, srv, ext>>
    \/ \E i \in Loops : ListenExit(i) /\ UNCHANGED <<hist, srv, ext>>
    \/ \E i \in Loops : Cleanup2(i) /\ UNCHANGED <<hist, srv, ext>>
    \/ \E i \in Loops : Wake(i) /\ UNCHANGED <<hist, srv, ext>>
    \/ \E t \in Transports : PeerClose(t) /\ UNCHANGED <<hist, srv, ext>>
    \/ \E j \in Closes : Close1(j) /\ UNCHANGED <<hist, srv, ext>>
    \/ \E j \in Closes : Close2(j) /\ UNCHANGED <<hist, srv, ext>>
    \/ \E j \in Closes : Close3(j) /\ UNCHANGED <<hist, srv, ext>>

LifeSpec == Init /\ [][LifeNext]_vars

\* the tasks the event loop resumes, and the awaits that return in bounded
\* time (ws_connect has conn_timeout, sleep has re_delay)
LifeFair ==
    /\ \A i \in Loops :
          /\ WF_vars(NewSession(i) /\ UNCHANGED <<hist, srv, ext>>)
          /\ WF_vars((AttemptSucceeds(i) \/ AttemptFails(i))
                        /\ UNCHANGED <<hist, srv, ext>>)
          /\ WF_vars(NotifyDone(i) /\ UNCHANGED <<hist, srv, ext>>)
          /\ WF_vars((HookReturns(i) \/ HookRaises(i))
                        /\ UNCHANGED <<hist, srv, ext>>)
          /\ WF_vars(ListenExit(i) /\ UNCHANGED <<hist, srv, ext>>)
          /\ WF_vars(Cleanup2(i) /\ UNCHANGED <<hist, srv, ext>>)
          /\ WF_vars(Wake(i) /\ UNCHANGED <<hist, srv, ext>>)
    /\ \A j \in Closes :
          /\ WF_vars(Close2(j) /\ UNCHANGED <<hist, srv, ext>>)
          /\ WF_vars(Close3(j) /\ UNCHANGED <<hist, srv, ext>>)

LifeFairSpec == LifeSpec /\ LifeFair

\* one connect() call, never closed, with a transport that may fail: the
\* reconnect loop under observation
RetryNext ==
    \/ Connect(1) /\ Observe /\ UNCHANGED <<srv, ext>>
    \/ AttemptSucceeds(1) /\ Observe /\ UNCHANGED <<srv, ext>>
    \/ AttemptFails(1) /\ Observe /\ UNCHANGED <<srv, ext>>
    \/ NotifyDone(1) /\ Observe /\ UNCHANGED <<srv, ext>>
    \/ HookReturns(1) /\ Observe /\ UNCHANGED <<srv, ext>>
    \/ HookRaises(1) /\ Observe /\ UNCHANGED <<srv, ext>>
    \/ ListenExit(1) /\ Observe /\ UNCHANGED <<srv, ext>>
    \/ Cleanup2(1) /\ Observe /\ UNCHANGED <<srv, ext>>
    \/ Wake(1) /\ Observe /\ UNCHANGED <<srv, ext>>
    \/ \E t \in Transports : PeerClose(t) /\ Observe /\ UNCHANGED <<srv, ext>>

RetrySpec == Init /\ [][RetryNext]_vars

\* one connect() call, never closed, with the registry, emit and the
\* inbound frames
MsgNext ==
    \/ Connect(1) /\ UNCHANGED <<hist, srv, ext>>
    \/ AttemptSucceeds(1) /\ UNCHANGED <<hist, srv, ext>>
    \/ NotifyDone(1) /\ UNCHANGED <<hist, srv, ext>>
    \/ HookReturns(1) /\ UNCHANGED <<hist, srv, ext>>
    \/ ListenExit(1) /\ UNCHANGED <<hist, srv, ext>>
    \/ Wake(1) /\ UNCHANGED <<hist, srv, ext>>
    \/ \E t \in Transports : PeerClose(t) /\ UNCHANGED <<hist, srv, ext>>
    \/ \E name \in OnNames : On(name) /\ UNCHANGED <<hist, srv, ext>>
    \/ \E name \in OnNames : Un(name) /\ UNCHANGED <<hist, srv, ext>>
    \/ \E event \in EmitEvents : Emit(event) /\ UNCHANGED <<hist, srv, ext>>
    \/ \E event \in EmitEvents, c \in CallIds :
          EmitWithTimeout(event, c) /\ UNCHANGED <<hist, srv, ext>>
    \/ \E c \in CallIds : Timeout(c) /\ UNCHANGED <<hist, srv, ext>>
    \/ \E f \in Frames, kind \in CbKinds :
          Receive(1, f, kind) /\ UNCHANGED <<hist, srv, ext>>
    \/ CallbackEnds(1) /\ UNCHANGED <<hist, srv, ext>>

MsgSpec == Init /\ [][MsgNext]_vars

\* one connect() call, never closed, with the registry, emit with callbacks
\* of the application and the inbound frames
RouteNext ==
    \/ Connect(1) /\ UNCHANGED <<hist, srv, ext>>
    \/ AttemptSucceeds(1) /\ UNCHANGED <<hist, srv, ext>>
    \/ NotifyDone(1) /\ UNCHANGED <<hist, srv, ext>>
    \/ HookReturns(1) /\ UNCHANGED <<hist, srv, ext>>
    \/ ListenExit(1) /\ UNCHANGED <<hist, srv, ext>>
    \/ Wake(1) /\ UNCHANGED <<hist, srv, ext>>
    \/ \E t \in Transports : PeerClose(t) /\ UNCHANGED <<hist, srv, ext>>
    \/ \E name \in OnNames : On(name) /\ UNCHANGED <<hist, srv, ext>>
    \/ \E name \in OnNames : Un(name) /\ UNCHANGED <<hist, srv, ext>>
    \/ \E event \in EmitEvents : Emit(event) /\ UNCHANGED <<hist, srv, ext>>
    \/ \E f \in Frames, kind \in CbKinds :
          Receive(1, f, kind) /\ UNCHANGED <<hist, srv, ext>>
    \/ CallbackEnds(1) /\ UNCHANGED <<hist, srv, ext>>

RouteSpec == Init /\ [][RouteNext]_vars

\* the server's connections and broadcast
RegNext ==
    \/ \E c \in Conns, k \in Ids, valid \in BOOLEAN :
          Upgrade(c, k, valid) /\ UNCHANGED <<base, hist, ext>>
    \/ \E c \in Conns : Prepared(c) /\ UNCHANGED <<base, hist, ext>>
    \/ \E c \in Conns : PrepareFails(c) /\ UNCHANGED <<base, hist, ext>>
    \/ \E c \in Conns, how \in {"closed", "lost"} :
          Gone(c, how) /\ UNCHANGED <<base, hist, ext>>
    \/ \E c \in Conns : LoopExit(c) /\ UNCHANGED <<base, hist, ext>>
    \/ \E c \in Conns : Cancelled(c) /\ UNCHANGED <<base, hist, ext>>
    \/ \E c \in Conns : CloseReturns(c) /\ UNCHANGED <<base, hist, ext>>
    \/ \E c \in Conns : CloseRaises(c) /\ UNCHANGED <<base, hist, ext>>
    \/ \E c \in Conns : Reclaim(c) /\ UNCHANGED <<base, hist, ext>>
    \/ \E F \in SUBSET Conns :
          BroadcastStart(F) /\ UNCHANGED <<base, hist, ext>>
    \/ BroadcastSend /\ UNCHANGED <<base, hist, ext>>

RegSpec == Init /\ [][RegNext]_vars

\* one server connection and the frames dispatched on it
DispatchNext ==
    \/ \E k \in Ids : Upgrade(1, k, TRUE) /\ UNCHANGED <<base, hist, ext>>
    \/ Prepared(1) /\ UNCHANGED <<base, hist, ext>>
    \/ \E how \in {"closed", "lost"} :
          Gone(1, how) /\ UNCHANGED <<base, hist, ext>>
    \/ LoopExit(1) /\ UNCHANGED <<base, hist, ext>>
    \/ CloseReturns(1) /\ UNCHANGED <<base, hist, ext>>
    \/ \E f \in SrvFrames, now, keep \in BOOLEAN,
          result \in {"none", "value", "raise"} :
          Dispatch(1, f, now, keep, result) /\ UNCHANGED <<base, hist, ext>>
    \/ HandlerEnds(1) /\ UNCHANGED <<base, hist, ext>>
    \/ \E h \in held[1] : LateAsk(1, h) /\ UNCHANGED <<base, hist, ext>>

DispatchSpec == Init /\ [][DispatchNext]_vars

\* one client and the server connection it talks to
EchoNext ==
    \/ \E k \in Ids : Upgrade(1, k, TRUE) /\ UNCHANGED <<base, hist, ext>>
    \/ Prepared(1) /\ UNCHANGED <<base, hist, ext>>
    \/ Connect(1) /\ UNCHANGED <<hist, srv, ext>>
    \/ EchoConnected /\ UNCHANGED <<hist, srv, ext>>
    \/ NotifyDone(1) /\ UNCHANGED <<hist, srv, ext>>
    \/ HookReturns(1) /\ UNCHANGED <<hist, srv, ext>>
    \/ \E name \in OnNames : On(name) /\ UNCHANGED <<hist, srv, ext>>
    \/ \E event \in EmitEvents :
          EchoEmit(event) /\ UNCHANGED <<hist, srv, noteVars, order>>
    \/ \E now \in BOOLEAN, result \in {"none", "value", "raise"} :
          EchoDispatch(now, result) /\ UNCHANGED <<base, hist, noteVars, order>>
    \/ EchoHandlerEnds /\ UNCHANGED <<base, hist, noteVars, order>>
    \/ \E kind \in CbKinds :
          EchoReceive(kind) /\ UNCHANGED <<hist, srv, noteVars, order>>
    \/ CallbackEnds(1) /\ UNCHANGED <<hist, srv, ext>>

EchoSpec == Init /\ [][EchoNext]_vars

\* one connect() call, never closed, with status listeners, the registry
\* and emit
NotifyNext ==
    \/ \E l \in StatusIds :
          AddStatusListener(l) /\ UNCHANGED <<base, hist, srv, net, order>>
    \/ Connect(1) /\ UNCHANGED <<hist, srv, ext>>
    \/ AttemptSucceeds(1) /\ UNCHANGED <<hist, srv, ext>>
    \/ AttemptFails(1) /\ UNCHANGED <<hist, srv, ext>>
    \/ \E raised \in BOOLEAN :
          StatusListener(1, raised) /\ UNCHANGED <<base, hist, srv, net, order>>
    \/ NotifyReturns(1) /\ UNCHANGED <<hist, srv, net, order>>
    \/ HookReturns(1) /\ UNCHANGED <<hist, srv, ext>>
    \/ HookRaises(1) /\ UNCHANGED <<hist, srv, ext>>
    \/ ListenExit(1) /\ UNCHANGED <<hist, srv, ext>>
    \/ Cleanup2(1) /\ UNCHANGED <<hist, srv, ext>>
    \/ Wake(1) /\ UNCHANGED <<hist, srv, ext>>
    \/ \E t \in Transports : PeerClose(t) /\ UNCHANGED <<hist, srv, ext>>
    \/ \E name \in OnNames : On(name) /\ UNCHANGED <<hist, srv, ext>>
    \/ \E name \in OnNames : Un(name) /\ UNCHANGED <<hist, srv, ext>>
    \/ \E event \in EmitEvents : Emit(event) /\ UNCHANGED <<hist, srv, ext>>

NotifySpec == Init /\ [][NotifyNext]_vars

\* connect() and close() calls in any interleaving, with listeners and the
\* inbound frames
PairNext ==
    \/ \E i \in Loops : Connect(i) /\ UNCHANGED <<hist, srv, ext>>
    \/ \E i \in Loops : NewSession(i) /\ UNCHANGED <<hist, srv, ext>>
    \/ \E i \in Loops : AttemptSucceeds(i) /\ UNCHANGED <<hist, srv, ext>>
    \/ \E i \in Loops : NotifyDone(i) /\ UNCHANGED <<hist, srv, ext>>
    \/ \E i \in Loops : HookReturns(i) /\ UNCHANGED <<hist, srv, ext>>
    \/ \E i \in Loops : ListenExit(i) /\ UNCHANGED <<hist, srv, ext>>
    \/ \E i \in Loops : Cleanup2(i) /\ UNCHANGED <<hist, srv, ext>>
    \/ \E i \in Loops : Wake(i) /\ UNCHANGED <<hist, srv, ext>>
    \/ \E j \in Closes : Close1(j) /\ UNCHANGED <<hist, srv, ext>>
    \/ \E j \in Closes : Close2(j) /\ UNCHANGED <<hist, srv, ext>>
    \/ \E j \in Closes : Close3(j) /\ UNCHANGED <<hist, srv, ext>>
    \/ \E name \in OnNames : On(name) /\ UNCHANGED <<hist, srv, ext>>
    \/ \E i \in Loops, f \in Frames, kind \in CbKinds :
          Receive(i, f, kind) /\ UNCHANGED <<hist, srv, ext>>
    \/ \E i \in Loops : CallbackEnds(i) /\ UNCHANGED <<hist, srv, ext>>

PairSpec == Init /\ [][PairNext]_vars

\* one connect() call, never closed, with status listeners, the hook and
\* the inbound frames, and the record of what it does after a handshake
OrderNext ==
    \/ \E l \in StatusIds :
          AddStatusListener(l) /\ UNCHANGED <<base, hist, srv, net>> /\ Watch
    \/ Connect(1) /\ UNCHANGED <<hist, srv, net, noteVars>> /\ Watch
    \/ AttemptSucceeds(1) /\ UNCHANGED <<hist, srv, net, noteVars>> /\ Watch
    \/ AttemptFails(1) /\ UNCHANGED <<hist, srv, net, noteVars>> /\ Watch
    \/ \E raised \in BOOLEAN :
          StatusListener(1, raised)
              /\ UNCHANGED <<base, hist, srv, net>> /\ Watch
    \/ NotifyReturns(1) /\ UNCHANGED <<hist, srv, net>> /\ Watch
    \/ HookReturns(1) /\ UNCHANGED <<hist, srv, net, noteVars>> /\ Watch
    \/ HookRaises(1) /\ UNCHANGED <<hist, srv, net, noteVars>> /\ Watch
    \/ ListenExit(1) /\ UNCHANGED <<hist, srv, net, noteVars>> /\ Watch
    \/ Cleanup2(1) /\ UNCHANGED <<hist, srv, net, noteVars>> /\ Watch
    \/ Wake(1) /\ UNCHANGED <<hist, srv, net, noteVars>> /\ Watch
    \/ \E t \in Transports :
          PeerClose(t) /\ UNCHANGED <<hist, srv, net, noteVars>> /\ Watch
    \/ \E name \in OnNames :
          On(name) /\ UNCHANGED <<hist, srv, net, noteVars>> /\ Watch
    \/ \E f \in Frames, kind \in CbKinds :
          Receive(1, f, kind) /\ UNCHANGED <<hist, srv, net, noteVars>> /\ Watch
    \/ CallbackEnds(1) /\ UNCHANGED <<hist, srv, net, noteVars>> /\ Watch

OrderSpec == Init /\ [][OrderNext]_vars

\* ------------------------------------------------------------------ claims
\* the handler the step invokes for an inbound frame, whether the callback
\* is synchronous (the handling ends in the step) or suspending
Invoked(i, kind) == IF Suspends(kind) THEN hand[i].out.h ELSE last.h

\* C1: every token emit attaches to a frame differs from the token of every
\* other request whose one-shot entry is registered and whose reply has not
\* been received.
C1_FreshToken == last.type = "tx" => ~last.clash

\* C2: an emit_with_timeout call returns the data of the reply frame that
\* carries its token when that frame arrives while it waits, and returns
\* null only when its wait times out without such a frame.
C2_TimeoutResult ==
    [][\A c \in CallIds :
         waiter[c].st = "waiting" =>
           /\ \A f \in Frames, kind \in CbKinds :
                 (Receive(1, f, kind) /\ f.cb = waiter[c].token)
                    => (last'.retc = c /\ last'.retv = f.data)
           /\ (last'.retc = c /\ last'.retv = Null) => Timeout(c)]_vars

\* C3: when the handling of a frame whose callback field is a token emit
\* registered ends, the callback has been invoked and the token is no
\* longer registered, whatever the callback did.
C3_OneShotRemoved ==
    (last.type = "rx" /\ last.branch = "cb" /\ last.h.src = "emit")
        => ~last.left

\* C4 as stated: a frame whose callback field is a token that an earlier
\* frame was already routed by fires no handler at all.
C4_SecondDropped == (last.type = "rx" /\ last.second) => last.h = NoHandler

\* the frames whose callback field is a token that an earlier frame was
\* already routed by
SecondFrames == {f \in Frames : f.cb \in answered}

\* C4 as amended: a frame whose callback field is a token that an earlier
\* frame was already routed by invokes exactly the entry registered under
\* the token at that time or, when there is none, the listener registered
\* under its event field, which stays registered; it fires no handler only
\* when neither is registered.
C4_SecondRoutedByEvent ==
    [][\A f \in SecondFrames, kind \in CbKinds :
         Receive(1, f, kind)
            => /\ Invoked(1, kind)' =
                    IF f.cb \in DOMAIN listener
                    THEN listener[f.cb]
                    ELSE Lookup(listener, f.ev)
               /\ f.cb \notin DOMAIN listener => listener' = listener]_vars

C4_Witness ==
    /\ last.type = "rx"
    /\ last.second
    /\ last.branch = "ev"
    /\ last.h.src = "on"

\* C5: a listener registered with on(E, h) stays registered until un(E), and
\* is the handler invoked for every inbound frame with event E whose
\* callback field is absent or is not a registered one-shot token.
C5_PersistentListener ==
    [][/\ \A k \in OnNames :
            (Lookup(listener, k).src = "on"
                /\ Lookup(listener', k) # listener[k]) => Un(k)
       /\ \A f \in Frames, kind \in CbKinds :
            (/\ Receive(1, f, kind)
             /\ Lookup(listener, f.ev).src = "on"
             /\ f.cb \notin OneShots)
               => Invoked(1, kind)' = listener[f.ev]]_vars

\* C6: connect() on a running Connection changes nothing, and at most one
\* receive loop is active (reads an open transport) at any time.
Receiving(i) == pc[i] \in {"listen", "awaitcb"} /\ tstate[iter[i]] = "open"

C6_SingleLoop ==
    [][/\ \A i \in Loops :
            (Connect(i) /\ running)
                => UNCHANGED <<running, ws, session, sopen, tstate, listener>>
       /\ Cardinality({i \in Loops : Receiving(i)}') <= 1]_vars

\* C7: when the first two connection attempts fail and the third succeeds,
\* the client is Connecting, Reconnecting, Connecting, Reconnecting,
\* Connecting, Connected, with the reconnect delay after each failure, and
\* the status listeners get (false, err) twice and then (true, null).
C7_ReconnectLoop ==
    (Len(outcomes) >= 3 /\ SubSeq(outcomes, 1, 3) = <<"fail", "fail", "ok">>)
        => /\ Len(trace) >= 8
           /\ SubSeq(trace, 1, 8) =
                 <<"Connecting", "Reconnecting", "Delay",
                   "Connecting", "Reconnecting", "Delay",
                   "Connecting", "Connected">>
           /\ Len(statusLog) >= 3
           /\ SubSeq(statusLog, 1, 3) = <<FALSE, FALSE, TRUE>>

C7_Witness ==
    /\ Len(outcomes) >= 3
    /\ SubSeq(outcomes, 1, 3) = <<"fail", "fail", "ok">>
    /\ pc[1] = "listen"

\* C8: between two (true, null) notifications there is always a
\* (false, reason) notification.
C8_DisconnectNotified ==
    \A k \in 1..(Len(statusLog) - 1) : ~(statusLog[k] /\ statusLog[k + 1])

\* C9: once close() has been called, a connect loop that was running starts
\* no further connection attempt.
C9_ClosedTerminal ==
    [][\A i \in Loops :
         seen[i] => ~(pc[i] # "connecting" /\ pc'[i] = "connecting")]_vars

\* C10: after close() is called, every connect loop that was running
\* eventually terminates, and no transport stays open once no connect loop
\* is left (a transport that a later connect() call holds is not counted).
C10_CloseReleases ==
    \A i \in Loops :
        seen[i] ~> /\ pc[i] = "done"
                   /\ (\A j \in Loops : ~Active(j))
                         => \A t \in Transports : tstate[t] # "open"

\* C11: emit called while the client is not connected returns false, sends
\* no frame and leaves the listener registry as it was, with a callback
\* supplied.
C11_EmitDisconnected ==
    [][\A event \in EmitEvents :
         (Emit(event) /\ ~Connected)
            => /\ last'.type = "tx"
               /\ ~last'.ok
               /\ ~last'.sent
               /\ listener' = listener]_vars

C11_Witness ==
    /\ last.type = "tx"
    /\ ~Connected
    /\ ~last.ok
    /\ DOMAIN listener # {}

\* C12: emit returns true exactly when send_json took the frame, and
\* returns false when send_json raised; every emit returns a value.
C12_EmitResult == last.type = "tx" => (last.ok <=> last.sent)

C12_Witness ==
    /\ last.type = "tx"
    /\ Connected
    /\ ~last.sent
    /\ ~last.ok

\* C20: a frame routed by the token of an emit_with_timeout call that has
\* timed out completes no emit_with_timeout call and invokes no callback
\* that another emit registered.
C20_LateReplyDropped ==
    [][\A f \in Frames, kind \in CbKinds :
         (Receive(1, f, kind) /\ f.cb \in expired)
            => /\ last'.retc = 0
               /\ Invoked(1, kind)' # EmitHandler]_vars

\* C13: when broadcast ends, by returning or by the exception of a send
\* that failed, no connection of the snapshot that can take the frame has
\* been left out.
C13_BroadcastIsolation ==
    bst \in {"done", "raised"}
        => \A n \in 1..Len(bq) : ~Sendable(bq[n])

\* C16: when the receive loop of a server connection has ended and
\* init_websocket is left, the transport is closed and the connection has
\* no entry in the registry.
C16_LoopEndCleansUp ==
    \A c \in Conns :
        spc[c] \in {"done", "raised"}
            => (sws[c] = "closed" /\ ~Registered(c))

\* C17: an upgrade request whose validation fails gets the 400 response and
\* leaves the connection registry exactly as it was.
C17_RejectLeavesRegistry ==
    [][\A c \in Conns, k \in Ids :
         Upgrade(c, k, FALSE)
            => (spc'[c] = "rejected"
                /\ socket_clients' = socket_clients)]_vars

\* C14: when the handler of an inbound frame with event E and token T has
\* called the reply capability with X and returned a value Y, and the
\* transport took the frames, the dispatch of that frame has sent exactly
\* two frames: first (E, X, T), then (E, Y) without a callback field.
C14_DualReply ==
    \A c \in Conns :
        (/\ cur[c].st = "ended"
         /\ cur[c].now
         /\ cur[c].result = "value"
         /\ Sendable(c))
            => /\ Len(Own(out[c])) = 2
               /\ LET m1 == Own(out[c])[1]
                      m2 == Own(out[c])[2]
                  IN  /\ <<m1.ev, m1.data, m1.cb>>
                            = <<cur[c].ev, ReplyX, cur[c].cb>>
                      /\ <<m2.ev, m2.data, m2.cb>>
                            = <<cur[c].ev, ReturnY, NoCb>>

C14_Witness ==
    /\ cur[1].st = "ended"
    /\ cur[1].now
    /\ cur[1].result = "value"
    /\ Sendable(1)
    /\ Len(out[1]) > 2

\* C15: every frame the reply capability sends carries the event and the
\* token of the inbound frame the capability was handed out for.
C15_ReplyKeepsOrigin ==
    \A c \in Conns :
        \A n \in 1..Len(out[c]) :
            out[c][n].by \in {"reply", "late"}
                => (out[c][n].ev = out[c][n].orig.ev
                    /\ out[c][n].cb = out[c][n].orig.cb)

\* C18: when the dispatch of a frame that is not JSON or not an object, or
\* whose handler raised, has ended and the transport takes frames, its last
\* frame is an error event and the receive loop waits for the next frame;
\* and the receive loop is left only when the transport does not take
\* frames any more.
C18_ErrorReplyLoopGoesOn ==
    [][\A c \in Conns :
         /\ (/\ cur'[c].st = "ended"
             /\ cur[c].st # "ended" \/ nin'[c] # nin[c]
             /\ cur'[c].kind # "ok" \/ cur'[c].result = "raise"
             /\ Sendable(c))
               => /\ spc'[c] = "loop"
                  /\ Own(out'[c]) # <<>>
                  /\ Own(out'[c])[Len(Own(out'[c]))].ev = ErrorEvent
         /\ (spc[c] \in {"loop", "handling"}
                /\ spc'[c] \notin {"loop", "handling"})
               => ~Sendable(c)]_vars

C18_Witness ==
    /\ cur[1].st = "ended"
    /\ cur[1].result = "raise"
    /\ spc[1] = "loop"
    /\ nin[1] = 2
    /\ out[1] # <<>>
    /\ out[1][Len(out[1])].ev = ErrorEvent

\* C19: when the client has emitted event E with a callback, the handler of
\* the server has called the reply capability with V and returned nothing,
\* and the client has handled all the server sent, then the server sent
\* exactly one frame, with event E, data V and the token of the client's
\* frame, and the client routed it to the callback of the emit, which is no
\* longer registered.
C19_EchoRoundTrip ==
    (/\ cur[1].st = "ended" /\ cur[1].now /\ cur[1].result = "none"
     /\ down = <<>> /\ last.type = "rx")
        => /\ Len(out[1]) = 1
           /\ out[1][1].ev = cur[1].ev
           /\ out[1][1].data = ReplyX
           /\ out[1][1].cb = cur[1].cb
           /\ last.branch = "cb"
           /\ last.h = EmitHandler
           /\ ~last.left

\* C21: when a status notification ends, every registered status listener
\* has been invoked once, in registration order, with the (connected,
\* error) of the notification, whether or not an earlier one raised, and
\* connect goes on with what follows the notification: the post-connect
\* hook after (true, null), the clean-up after (false, reason).
C21_StatusListeners ==
    [][(pc[1] \in {"notifyT", "notifyF"} /\ pc'[1] # pc[1])
          => /\ Len(heard[1]) = Len(status_listeners)
             /\ \A n \in 1..Len(heard[1]) :
                   /\ heard[1][n].l = status_listeners[n]
                   /\ heard[1][n].connected = Notice(1).connected
                   /\ heard[1][n].error = Notice(1).error
             /\ pc'[1] = IF pc[1] = "notifyT" THEN "hook"
                         ELSE IF ws # 0 /\ tstate[ws] # "closed"
                         THEN "cleanup2" ELSE "sleep"]_vars

\* the notification (true, null) has ended and its first listener raised
C21_Witness ==
    /\ pc[1] = "hook"
    /\ Len(heard[1]) = 2
    /\ heard[1][1].raised
    /\ heard[1][2].connected

\* C22: no step of the connection lifecycle (the loss of the transport, a
\* failed or successful attempt, the notifications, the hook, the clean-up
\* and the delay) changes the listener registry or the status-listener
\* list: what was registered when the transport was lost is registered,
\* with the same handlers, when the client is connected again.
C22_RegistrySurvives ==
    [][(lifeVars' # lifeVars \/ npos' # npos)
          => /\ listener' = listener
             /\ status_listeners' = status_listeners]_vars

\* connected again after a failure, with a listener and a one-shot entry
\* that were registered before
C22_Witness ==
    /\ pc[1] = "notifyT"
    /\ npos[1] = 0
    /\ Len(heard[1]) > 0
    /\ ~heard[1][1].connected
    /\ <<"e">> \in DOMAIN listener
    /\ OneShots # {}

\* the frames the client absorbs: text that is not JSON, a frame that no
\* entry of the registry matches, and a frame whose handler raises
Absorbed(f, kind) ==
    Route(listener, f) \in {"bad", "none"} \/ Raises(kind)

\* C23: the handling of a frame that is not JSON, of a frame for an
\* unregistered event and of a frame whose listener raises leaves the
\* transport, the connection state and the loop as they are: when it ends
\* the client waits for the next frame of the same open transport, and that
\* frame is routed by the registry as every frame is.
C23_FrameAbsorbed ==
    [][/\ \A f \in Frames, kind \in CbKinds :
             (Receive(1, f, kind) /\ Absorbed(f, kind))
                => /\ UNCHANGED <<running, ws, tstate, iter>>
                   /\ Connected'
                   /\ ~last'.sent
                   /\ pc'[1] = IF Suspends(kind) THEN "awaitcb" ELSE "listen"
       /\ CallbackEnds(1)
             => /\ UNCHANGED <<running, ws, tstate, iter>>
                /\ pc'[1] = "listen"
       /\ \A f \in Frames, kind \in CbKinds :
             Receive(1, f, kind)
                => /\ Invoked(1, kind)' = Fired(listener, f)
                   /\ (~Suspends(kind) => last'.branch = Route(listener, f))
      ]_vars

\* a frame that is not JSON has been handled and the client waits for the
\* next frame
C23_Witness ==
    /\ last.type = "rx"
    /\ last.branch = "bad"
    /\ pc[1] = "listen"
    /\ Connected

\* C24: for every inbound JSON object frame the server dispatches, exactly
\* one handler is invoked: the method "<event>Event" of the application
\* object when it has one, the handler of the route otherwise; and the
\* handler is handed the reply capability only when the frame has a
\* callback token.
C24_HandlerChoice ==
    \A c \in Conns :
        (cur[c].st \in {"running", "ended"} /\ cur[c].kind = "ok")
            => /\ Cardinality(cur[c].called) = 1
               /\ "named" \in cur[c].called <=> cur[c].ev \in NamedEvents
               /\ "generic" \in cur[c].called <=> cur[c].ev \notin NamedEvents
               /\ cur[c].cap => cur[c].cb # NoCb
               /\ cur[c].now => cur[c].cap

\* a frame with a named handler and a token, and after it a frame without
\* either
C24_Witness ==
    /\ nin[1] = 2
    /\ cur[1].st = "ended"
    /\ cur[1].called = {"generic"}
    /\ ~cur[1].cap
    /\ req[1].ev \in NamedEvents

\* C25: the handling of a frame starts on a connection only when no
\* handling of an earlier frame of that connection is unfinished: on the
\* client no frame of a transport is taken while a handler for a frame of
\* that transport is suspended, on the server no frame is dispatched while
\* todo runs for an earlier one.
C25_OneAtATime ==
    [][/\ \A i \in Loops, f \in Frames, kind \in CbKinds :
             Receive(i, f, kind)
                => \A j \in Loops : ~(pc[j] = "awaitcb" /\ iter[j] = iter[i])
       /\ \A c \in Conns :
             nin'[c] # nin[c] => spc[c] = "loop" /\ cur[c].st # "running"
      ]_vars

\* C26: in what connect() does after a successful handshake, the status
\* listeners are invoked with (true, null) first, then the notification
\* ends, then the post-connect hook runs, and the handling of an inbound
\* frame begins only after the hook has returned; when the hook raises, the
\* loop is not ended: the status listeners are notified with (false,
\* reason), no frame is handled, and the loop goes to its next attempt.
C26_ConnectOrder ==
    \A n \in 1..Len(order) :
        /\ order[n] \in {"L+", "N+"}
              => /\ order[1] = "S"
                 /\ \A k \in 2..(n - 1) : order[k] = "L+"
        /\ order[n] \in {"H", "HX"}
              => /\ pc[1] # "done"
                 /\ order[1] = "S"
                 /\ \E m \in 2..(n - 1) :
                       /\ order[m] = "N+"
                       /\ \A k \in 2..(m - 1) : order[k] = "L+"
        /\ order[n] = "F" => \E m \in 1..(n - 1) : order[m] = "H"
        /\ order[n] = "HX"
              => /\ pc[1] \notin {"listen", "awaitcb"}
                 /\ \A m \in (n + 1)..Len(order) : order[m] \in {"L-", "N-"}
                 /\ (pc[1] # "notifyF" /\ Len(order) < OrderCap)
                       => \E m \in (n + 1)..Len(order) : order[m] = "N-"

\* the hook raised, a status listener got (false, reason), and the loop is
\* making its next attempt
C26_Witness ==
    /\ pc[1] = "connecting"
    /\ \E n \in 1..Len(order) :
          /\ order[n] = "HX"
          /\ n + 2 <= Len(order)
          /\ order[n + 1] = "L-"
          /\ order[n + 2] = "N-"

\* C27: when broadcast is over, the connections that took its frame are
\* the connections of the snapshot, each of them once; while it sends, no
\* connection outside the snapshot takes the frame, whatever is registered
\* or removed meanwhile.
C27_BroadcastTargets ==
    /\ bgot \subseteq {bsnap[n] : n \in 1..Len(bsnap)}
    /\ \A n \in 1..Len(bq) : bq[n] \notin bgot
    /\ \A n, m \in 1..Len(bsnap) : bsnap[n] = bsnap[m] => n = m
    /\ bst \in {"done", "raised"}
          => bgot = {bsnap[n] : n \in 1..Len(bsnap)}

\* C28: at most one transport of the client is open at any time, and while
\* a connection attempt is in flight the transport of the previous attempt
\* is closed and self.ws holds nothing.
C28_OneTransport ==
    /\ Cardinality({t \in Transports : tstate[t] # "closed"}) <= 1
    /\ \A i \in Loops :
          pc[i] = "connecting"
              => (ws = 0 /\ \A t \in Transports : tstate[t] = "closed")

\* C29: the handling of an inbound frame, up to the await of a suspending
\* callback and from there to its end, leaves every entry registered with
\* on(E, h) in the registry, whatever the frame's callback field is.
C29_FrameKeepsListeners ==
    [][((\E f \in Frames, kind \in CbKinds : Receive(1, f, kind))
            \/ CallbackEnds(1))
          => \A k \in DOMAIN listener :
                listener[k].src = "on"
                    => (k \in DOMAIN listener' /\ listener'[k] = listener[k])
      ]_vars

\* C30: after every step, each server connection whose receive loop runs
\* has the registry entry of its own id, and the clean-up of a connection
\* leaves the entries of all other connections in the registry.
Listed(R, c) == \E n \in 1..Len(R) : R[n] = [id |-> sid[c], io |-> c]

C30_OwnEntry ==
    [][/\ \A c \in Conns : spc'[c] = "loop" => Listed(socket_clients, c)'
       /\ \A c \in Conns :
             (LoopExit(c) \/ Cancelled(c) \/ CloseReturns(c))
                => \A d \in Conns \ {c} :
                      Registered(d) => Registered(d)'
      ]_vars

\* C31: an emit that returns false, called directly or by
\* emit_with_timeout, leaves the listener registry as it was before the
\* call.
C31_FailedEmitLeavesRegistry ==
    [][((\E event \in EmitEvents : Emit(event))
            \/ (\E event \in EmitEvents, c \in CallIds :
                    EmitWithTimeout(event, c)))
          => ((last'.type = "tx" /\ ~last'.ok) => listener' = listener)
      ]_vars

\* C32: whenever the client reports connected, a connect() invocation is
\* in listen_messages on the transport self.ws holds, and every frame emit
\* has sent was sent in such a state.
Listening ==
    \E i \in Loops : pc[i] \in {"listen", "awaitcb"} /\ iter[i] = ws

C32_ConnectedMeansListening ==
    /\ Connected => Listening
    /\ (last.type = "tx" /\ last.sent) => Listening

====
